---------------------------- MODULE Spec2Model ----------------------------
(***************************************************************************)
(* AssemblyLine transcript graphs (lib/assemble/transcript_graph.py) and   *)
(* transfrags (lib2/transfrag.py).                                         *)
(*                                                                         *)
(* An exon and a node are pairs <<start, end>>.  A transcript is a record  *)
(* [strand, is_ref, score, exons]; scores are counted in whole units, so   *)
(* "sum > FLOAT_PRECISION" reads "sum > 0".  Python lists are sequences:   *)
(* the 0-based index i of the code is i + 1 here.                          *)
(***************************************************************************)
EXTENDS Integers, Sequences, FiniteSets, TLC

VARIABLES
    pc,                      \* position of the running operation
    transcripts,             \* the input list of transcripts
    boundaries,              \* sorted exon boundaries
    exon,                    \* split_exon: the exon being split
    intervals,               \* split_exon: the intervals yielded
    t_strand,                \* t.strand of each transcript, by position in transcripts
    node_data,               \* node -> [ref_strands, scores]
    strand_transcript_lists, \* the three strand buckets (positions in transcripts)
    strand_ref_transcripts,  \* the two reference-only lists
    unresolved_transcripts,  \* transcripts whose strand is not resolved yet
    unresolved_nodes,        \* nodes of the transcripts left by score resolution
    resolved,                \* transcripts resolved by score resolution
    node_strand_map,         \* node -> strand voted for its cluster
    raised,                  \* the exception that ended the operation, or "none"
    tf_exons,                \* Transfrag.exons of the transfrag iterated
    tf_e1,                   \* iterintrons: the previous exon
    tf_j,                    \* iterintrons: the loop index
    introns,                 \* iterintrons: the pairs yielded
    gtf_lines,               \* parse_gtf: the feature records of the locus
    ignore_ref,              \* parse_gtf: its ignore_ref argument
    line_no,                 \* parse_gtf: the number of records consumed
    t_dict,                  \* parse_gtf: the transfrags, in order of declaration
    g_strand,                \* the strand of the bucket a graph is built for
    G,                       \* the directed graph: [node, edge, boundaries]
    trim_nodes,              \* the nodes the trimmer flagged
    H,                       \* the collapsed graph: [node, edge]
    node_chain_map,          \* node of G -> collapsed node of H
    node_subgraph_map,       \* collapsed node -> index of its component
    partial_paths,           \* <<component, path tuple>> -> score
    t_no                     \* the number of transcripts mapped to paths

splitVars == <<exon, intervals>>

partVars == <<t_strand, node_data, strand_transcript_lists, strand_ref_transcripts,
              unresolved_transcripts, unresolved_nodes, resolved,
              node_strand_map, raised>>

tfVars == <<tf_exons, tf_e1, tf_j, introns>>

gtfVars == <<gtf_lines, ignore_ref, line_no, t_dict>>

graphVars == <<g_strand, G, trim_nodes, H, node_chain_map, node_subgraph_map,
               partial_paths, t_no>>

vars == <<pc, transcripts, boundaries, splitVars, partVars, tfVars, gtfVars,
          graphVars>>

\* Strand codes (assemblyline.lib.transcript); they index the per-strand lists.
POS_STRAND == 0
NEG_STRAND == 1
NO_STRAND == 2

\* Largest genomic coordinate of the exon-splitting inputs.
MaxCoord == 3

---------------------------------------------------------------------------
(* Sequences and sets                                                      *)

Range(s) == {s[i] : i \in DOMAIN s}

Min(S) == CHOOSE x \in S : \A y \in S : x <= y

Max(S) == CHOOSE x \in S : \A y \in S : x >= y

RECURSIVE SumSeq(_)
SumSeq(s) == IF s = <<>> THEN 0 ELSE Head(s) + SumSeq(Tail(s))

RECURSIVE Flatten(_)
Flatten(ss) == IF ss = <<>> THEN <<>> ELSE Head(ss) \o Flatten(Tail(ss))

Reverse(s) == [i \in 1..Len(s) |-> s[Len(s) + 1 - i]]

\* sorted(S) for a set of integers
RECURSIVE sorted(_)
sorted(S) == IF S = {} THEN <<>> ELSE <<Min(S)>> \o sorted(S \ {Min(S)})

---------------------------------------------------------------------------
(* find_exon_boundaries, split_exon, split_exons                           *)

find_exon_boundaries(ts) ==
    LET exon_boundaries ==
            UNION {UNION {{ts[i].exons[j][1], ts[i].exons[j][2]} :
                              j \in DOMAIN ts[i].exons} : i \in DOMAIN ts}
    IN  sorted(exon_boundaries)

\* bisect.bisect_right(a, x): the binary search, on 0-based positions lo..hi
RECURSIVE bisect_right_loop(_, _, _, _)
bisect_right_loop(a, x, lo, hi) ==
    IF lo < hi
    THEN LET mid == (lo + hi) \div 2
         IN  IF x < a[mid + 1]
             THEN bisect_right_loop(a, x, lo, mid)
             ELSE bisect_right_loop(a, x, mid + 1, hi)
    ELSE lo

bisect_right(a, x) == bisect_right_loop(a, x, 0, Len(a))

RECURSIVE bisect_left_loop(_, _, _, _)
bisect_left_loop(a, x, lo, hi) ==
    IF lo < hi
    THEN LET mid == (lo + hi) \div 2
         IN  IF a[mid + 1] < x
             THEN bisect_left_loop(a, x, mid + 1, hi)
             ELSE bisect_left_loop(a, x, lo, mid)
    ELSE lo

bisect_left(a, x) == bisect_left_loop(a, x, 0, Len(a))

\* The middle loop of split_exon stopping one pair early: the last interior
\* pair of boundaries is never yielded.
split_exon_short(e, bs) ==
    IF e[1] = e[2] THEN <<>>
    ELSE LET start_ind == bisect_right(bs, e[1])
             end_ind == bisect_left(bs, e[2])
         IN  IF start_ind = end_ind THEN <<e>>
             ELSE <<<<e[1], bs[start_ind + 1]>>>>
                  \o [k \in 1..(end_ind - 2 - start_ind) |->
                         <<bs[start_ind + k], bs[start_ind + k + 1]>>]
                  \o <<<<bs[end_ind], e[2]>>>>

\* split_exon without its middle loop: the exon is cut at the first interior
\* boundary only.
split_exon_coarse(e, bs) ==
    IF e[1] = e[2] THEN <<>>
    ELSE LET start_ind == bisect_right(bs, e[1])
             end_ind == bisect_left(bs, e[2])
         IN  IF start_ind = end_ind THEN <<e>>
             ELSE <<<<e[1], bs[start_ind + 1]>>, <<bs[start_ind + 1], e[2]>>>>

\* split_exon(exon, boundaries): the intervals yielded, in order.
\* boundaries[j] of the code is bs[j + 1].
split_exon(e, bs) ==
    IF e[1] = e[2] THEN <<>>
    ELSE LET start_ind == bisect_right(bs, e[1])
             end_ind == bisect_left(bs, e[2])
         IN  IF start_ind = end_ind THEN <<e>>
             ELSE <<<<e[1], bs[start_ind + 1]>>>>
                  \o [k \in 1..(end_ind - 1 - start_ind) |->
                         <<bs[start_ind + k], bs[start_ind + k + 1]>>]
                  \o <<<<bs[end_ind], e[2]>>>>

split_exons(t, bs) ==
    Flatten([j \in DOMAIN t.exons |-> split_exon(t.exons[j], bs)])

---------------------------------------------------------------------------
(* Exon splitting against the boundaries of a set of transcripts           *)

\* Intervals [start, end) with start <= end; start = end is degenerate.
Exons == {e \in (0..MaxCoord) \X (0..MaxCoord) : e[1] <= e[2]}

ExonLists == {<<e>> : e \in Exons} \cup {<<e1, e2>> : e1 \in Exons, e2 \in Exons}

Transcript(strand, is_ref, score, exons) ==
    [strand |-> strand, is_ref |-> is_ref, score |-> score, exons |-> exons]

SplitTranscripts == {Transcript(POS_STRAND, FALSE, 1, el) : el \in ExonLists}

SplitInputs ==
    {<<t>> : t \in SplitTranscripts}
        \cup {<<t1, t2>> : t1 \in SplitTranscripts, t2 \in SplitTranscripts}

AllExons(ts) == UNION {Range(ts[i].exons) : i \in DOMAIN ts}

PartIdle ==
    /\ t_strand = <<>>
    /\ node_data = <<>>
    /\ strand_transcript_lists = <<>>
    /\ strand_ref_transcripts = <<>>
    /\ unresolved_transcripts = <<>>
    /\ unresolved_nodes = {}
    /\ resolved = <<>>
    /\ node_strand_map = <<>>
    /\ raised = "none"

TfIdle ==
    /\ tf_exons = <<>>
    /\ tf_e1 = <<0, 0>>
    /\ tf_j = 0
    /\ introns = <<>>

GtfIdle ==
    /\ gtf_lines = <<>>
    /\ ignore_ref = TRUE
    /\ line_no = 0
    /\ t_dict = <<>>

GraphIdle ==
    /\ g_strand = NO_STRAND
    /\ G = <<>>
    /\ trim_nodes = {}
    /\ H = <<>>
    /\ node_chain_map = <<>>
    /\ node_subgraph_map = <<>>
    /\ partial_paths = <<>>
    /\ t_no = 0

InitSplit ==
    /\ pc = "start"
    /\ transcripts \in SplitInputs
    /\ boundaries = <<>>
    /\ exon = <<0, 0>>
    /\ intervals = <<>>
    /\ PartIdle
    /\ TfIdle
    /\ GtfIdle
    /\ GraphIdle

FindBoundaries ==
    /\ pc = "start"
    /\ boundaries' = find_exon_boundaries(transcripts)
    /\ pc' = "bounded"
    /\ UNCHANGED <<transcripts, exon, intervals, partVars, tfVars, gtfVars,
                   graphVars>>

SplitExon ==
    /\ pc = "bounded"
    /\ \E e \in AllExons(transcripts) :
          /\ exon' = e
          /\ intervals' = split_exon(e, boundaries)
    /\ pc' = "split"
    /\ UNCHANGED <<transcripts, boundaries, partVars, tfVars, gtfVars, graphVars>>

NextSplit == FindBoundaries \/ SplitExon

SpecSplit == InitSplit /\ [][NextSplit]_vars

\* C1: splitting an exon of a transcript set against that set's boundaries
\* tiles the exon: the first interval starts at exon.start, the last ends at
\* exon.end, each interval ends where the next starts, every interval has
\* start < end and the lengths sum to end - start; a degenerate exon yields
\* nothing.
SplitTilesExon ==
    pc = "split" =>
        IF exon[1] = exon[2]
        THEN intervals = <<>>
        ELSE /\ Len(intervals) >= 1
             /\ intervals[1][1] = exon[1]
             /\ intervals[Len(intervals)][2] = exon[2]
             /\ \A k \in 1..(Len(intervals) - 1) :
                    intervals[k][2] = intervals[k + 1][1]
             /\ \A k \in DOMAIN intervals : intervals[k][1] < intervals[k][2]
             /\ SumSeq([k \in DOMAIN intervals |->
                           intervals[k][2] - intervals[k][1]])
                    = exon[2] - exon[1]

\* An exon crossed by two interior boundaries has been split in three.
SplitTilesExonWitness ==
    /\ pc = "split"
    /\ exon[1] < exon[2]
    /\ Len(intervals) >= 3

---------------------------------------------------------------------------
(* Exon splitting against any boundary list                                *)

\* Largest coordinate of a boundary list or of an exon split against it.
MaxBoundary == 5

\* The sorted, strictly increasing lists of coordinates.
BoundaryLists == {sorted(S) : S \in SUBSET (0..MaxBoundary)}

\* The exons split against them; their endpoints need not be boundaries.
GivenExons == {e \in (0..MaxBoundary) \X (0..MaxBoundary) : e[1] <= e[2]}

InitSplitAny ==
    /\ pc = "given"
    /\ transcripts = <<>>
    /\ boundaries \in BoundaryLists
    /\ exon \in GivenExons
    /\ intervals = <<>>
    /\ PartIdle
    /\ TfIdle
    /\ GtfIdle
    /\ GraphIdle

\* split_exon(exon, boundaries), the generator run to its end
SplitAgainst ==
    /\ pc = "given"
    /\ intervals' = split_exon(exon, boundaries)
    /\ pc' = "yielded"
    /\ UNCHANGED <<transcripts, boundaries, exon, partVars, tfVars, gtfVars,
                   graphVars>>

NextSplitAny == SplitAgainst

SpecSplitAny == InitSplitAny /\ [][NextSplitAny]_vars

\* The boundaries strictly inside the exon.
Interior(e, bs) == {b \in Range(bs) : e[1] < b /\ b < e[2]}

\* C13: for a sorted boundary list and a non-degenerate exon, no interval
\* yielded by split_exon has a boundary strictly between its start and its
\* end, every boundary strictly inside the exon is an endpoint of an interval
\* yielded, and there is one interval more than there are such boundaries.
SplitIsMinimal ==
    (pc = "yielded" /\ exon[1] < exon[2]) =>
        /\ \A k \in DOMAIN intervals : \A b \in Range(boundaries) :
              ~(intervals[k][1] < b /\ b < intervals[k][2])
        /\ \A b \in Interior(exon, boundaries) :
              \E k \in DOMAIN intervals :
                  intervals[k][1] = b \/ intervals[k][2] = b
        /\ Len(intervals) = Cardinality(Interior(exon, boundaries)) + 1

\* An exon whose endpoints are not boundaries, with two boundaries inside it
\* and one outside, has been split.
SplitIsMinimalWitness ==
    /\ pc = "yielded"
    /\ exon[1] \notin Range(boundaries)
    /\ exon[2] \notin Range(boundaries)
    /\ Cardinality(Interior(exon, boundaries)) >= 2
    /\ Range(boundaries) \ Interior(exon, boundaries) # {}
    /\ Len(intervals) >= 3

---------------------------------------------------------------------------
(* partition_transcripts_by_strand                                         *)

\* node_data_func: the default entry of node_data
node_data_func == [ref_strands |-> <<FALSE, FALSE>>, scores |-> <<0, 0, 0>>]

\* node_data[n]: node_data is a defaultdict, a missing key reads as the
\* default entry (the entry a read inserts is the default, so it is left out)
nd_get(nd, n) == IF n \in DOMAIN nd THEN nd[n] ELSE node_data_func

nd_put(nd, n, v) == [m \in DOMAIN nd \cup {n} |-> IF m = n THEN v ELSE nd[m]]

\* The transcript object at position i, with its current strand.
TObj(i, strands) ==
    [id |-> i, strand |-> strands[i], score |-> transcripts[i].score]

\* for n in nodes_iter: node_data[n]['scores'][t.strand] += t.score
RECURSIVE add_scores(_, _, _, _)
add_scores(nd, nodes, s, score) ==
    IF nodes = <<>> THEN nd
    ELSE LET n == Head(nodes)
             v == [nd_get(nd, n) EXCEPT !.scores[s + 1] = @ + score]
         IN  add_scores(nd_put(nd, n, v), Tail(nodes), s, score)

\* add_transcript(t, nodes_iter, transcript_lists, node_data)
add_transcript(t, nodes, transcript_lists, nd) ==
    [node_data |-> add_scores(nd, nodes, t.strand, t.score),
     lists |-> [transcript_lists EXCEPT ![t.strand + 1] = Append(@, t.id)]]

\* resolve_strand(nodes_iter, node_data)
resolve_strand(nodes, nd) ==
    LET length(n) == n[2] - n[1]
        total_scores ==
            [s \in {POS_STRAND, NEG_STRAND} |->
                SumSeq([k \in DOMAIN nodes |->
                    nd_get(nd, nodes[k]).scores[s + 1] * length(nodes[k])])]
        ref_bp ==
            [s \in {POS_STRAND, NEG_STRAND} |->
                SumSeq([k \in DOMAIN nodes |->
                    IF nd_get(nd, nodes[k]).ref_strands[s + 1]
                    THEN length(nodes[k]) ELSE 0])]
    IN  IF total_scores[POS_STRAND] + total_scores[NEG_STRAND] > 0
        THEN IF total_scores[POS_STRAND] >= total_scores[NEG_STRAND]
             THEN POS_STRAND ELSE NEG_STRAND
        ELSE IF ref_bp[POS_STRAND] + ref_bp[NEG_STRAND] > 0
        THEN IF ref_bp[POS_STRAND] >= ref_bp[NEG_STRAND]
             THEN POS_STRAND ELSE NEG_STRAND
        ELSE NO_STRAND

\* for n in split_exons(t, boundaries): node_data[n]['ref_strands'][t.strand] = True
RECURSIVE mark_ref_strands(_, _, _)
mark_ref_strands(nd, nodes, s) ==
    IF nodes = <<>> THEN nd
    ELSE LET n == Head(nodes)
             v == [nd_get(nd, n) EXCEPT !.ref_strands[s + 1] = TRUE]
         IN  mark_ref_strands(nd_put(nd, n, v), Tail(nodes), s)

\* The first loop (lines 132-143), from transcript i on.  st holds node_data,
\* the bucket lists, the reference lists, the unresolved list and the
\* exception raised.  A reference transcript's strand indexes the 2-element
\* ref_strands of its nodes and the 2-element strand_ref_transcripts.
RECURSIVE classify_loop(_, _, _, _)
classify_loop(i, strands, bs, st) ==
    IF i > Len(transcripts) THEN st
    ELSE LET t == TObj(i, strands)
             nodes == split_exons(transcripts[i], bs)
         IN  IF transcripts[i].is_ref
             THEN IF \/ nodes # <<>> /\ t.strand >= Len(node_data_func.ref_strands)
                     \/ t.strand >= Len(st.refs)
                  THEN [st EXCEPT !.raised = "IndexError"]
                  ELSE classify_loop(i + 1, strands, bs,
                           [st EXCEPT
                               !.node_data = mark_ref_strands(@, nodes, t.strand),
                               !.refs[t.strand + 1] = Append(@, i)])
             ELSE IF t.strand # NO_STRAND
             THEN LET r == add_transcript(t, nodes, st.lists, st.node_data)
                  IN  classify_loop(i + 1, strands, bs,
                          [st EXCEPT !.node_data = r.node_data, !.lists = r.lists])
             ELSE classify_loop(i + 1, strands, bs,
                      [st EXCEPT !.unresolved = Append(@, i)])

\* for t in resolved: add_transcript(t, split_exons(t, boundaries), ...)
RECURSIVE add_resolved(_, _, _, _, _)
add_resolved(ts, strands, bs, lists, nd) ==
    IF ts = <<>> THEN [node_data |-> nd, lists |-> lists]
    ELSE LET i == Head(ts)
             r == add_transcript(TObj(i, strands),
                                 split_exons(transcripts[i], bs), lists, nd)
         IN  add_resolved(Tail(ts), strands, bs, r.lists, r.node_data)

\* The loop of lines 152-159 over the unresolved transcripts us; st holds the
\* strands, resolved, the still unresolved transcripts and unresolved_nodes.
RECURSIVE score_resolve_loop(_, _, _, _)
score_resolve_loop(us, bs, nd, st) ==
    IF us = <<>> THEN st
    ELSE LET i == Head(us)
             nodes == split_exons(transcripts[i], bs)
             s == resolve_strand(nodes, nd)
         IN  score_resolve_loop(Tail(us), bs, nd,
                 IF s # NO_STRAND
                 THEN [st EXCEPT !.strands[i] = s, !.resolved = Append(@, i)]
                 ELSE [st EXCEPT !.strands[i] = s,
                                 !.unresolved_nodes = @ \cup Range(nodes),
                                 !.still = Append(@, i)])

\* The same loop adding each resolved transcript to node_data at once, so
\* that later transcripts of the pass vote against it.
RECURSIVE score_resolve_eager_loop(_, _, _)
score_resolve_eager_loop(us, bs, st) ==
    IF us = <<>> THEN st
    ELSE LET i == Head(us)
             nodes == split_exons(transcripts[i], bs)
             s == resolve_strand(nodes, st.node_data)
             strands == [st.strands EXCEPT ![i] = s]
             r == add_transcript(TObj(i, strands), nodes, st.lists, st.node_data)
         IN  score_resolve_eager_loop(Tail(us), bs,
                 IF s # NO_STRAND
                 THEN [st EXCEPT !.strands = strands, !.resolved = Append(@, i),
                                 !.node_data = r.node_data, !.lists = r.lists]
                 ELSE [st EXCEPT !.strands = strands,
                                 !.unresolved_nodes = @ \cup Range(nodes),
                                 !.still = Append(@, i)])

score_resolution_eager(us, strands, bs, lists, nd) ==
    score_resolve_eager_loop(us, bs,
        [strands |-> strands, resolved |-> <<>>, still |-> <<>>,
         unresolved_nodes |-> {}, node_data |-> nd, lists |-> lists])

\* Lines 150-163: the score-resolution pass, then the resolved transcripts
\* added to node_data and to their buckets.
score_resolution(us, strands, bs, lists, nd) ==
    LET st == score_resolve_loop(us, bs, nd,
                  [strands |-> strands, resolved |-> <<>>, still |-> <<>>,
                   unresolved_nodes |-> {}])
        r == add_resolved(st.resolved, st.strands, bs, lists, nd)
    IN  [strands |-> st.strands, resolved |-> st.resolved, still |-> st.still,
         unresolved_nodes |-> st.unresolved_nodes,
         node_data |-> r.node_data, lists |-> r.lists]

\* ClusterTree(0, 1): two intervals are clustered when they overlap or touch
\* (distance 0), transitively; every cluster is a region.
Touch(a, b) == a[1] <= b[2] /\ b[1] <= a[2]

RECURSIVE ClusterOf(_, _)
ClusterOf(S, all) ==
    LET T == S \cup {m \in all : \E n \in S : Touch(n, m)}
    IN  IF T = S THEN S ELSE ClusterOf(T, all)

getregions(all) == {ClusterOf({n}, all) : n \in all}

\* sorted(S) for a set of nodes: by start, then end
RECURSIVE sorted_nodes(_)
sorted_nodes(S) ==
    IF S = {} THEN <<>>
    ELSE LET n == CHOOSE x \in S : \A y \in S :
                      x[1] < y[1] \/ (x[1] = y[1] /\ x[2] <= y[2])
         IN  <<n>> \o sorted_nodes(S \ {n})

\* Lines 171-181: one strand for every node of a cluster.
cluster_strands(unodes, nd) ==
    [n \in unodes |->
        LET nodes == CHOOSE region \in getregions(unodes) : n \in region
        IN  resolve_strand(sorted_nodes(nodes), nd)]

\* cluster_vote giving Positive to a transcript none of whose clusters voted
cluster_vote_default_pos(t, nodes, nsm) ==
    LET strand_bp ==
            [s \in {POS_STRAND, NEG_STRAND} |->
                SumSeq([k \in DOMAIN nodes |->
                    IF nsm[nodes[k]] = s THEN nodes[k][2] - nodes[k][1] ELSE 0])]
    IN  IF strand_bp[POS_STRAND] >= strand_bp[NEG_STRAND]
        THEN POS_STRAND ELSE NEG_STRAND

\* cluster_vote breaking a tie towards Negative
cluster_vote_tie_neg(t, nodes, nsm) ==
    LET strand_bp ==
            [s \in {POS_STRAND, NEG_STRAND} |->
                SumSeq([k \in DOMAIN nodes |->
                    IF nsm[nodes[k]] = s THEN nodes[k][2] - nodes[k][1] ELSE 0])]
        total_strand_bp == strand_bp[POS_STRAND] + strand_bp[NEG_STRAND]
    IN  IF total_strand_bp > 0
        THEN IF strand_bp[POS_STRAND] > strand_bp[NEG_STRAND]
             THEN POS_STRAND ELSE NEG_STRAND
        ELSE t.strand

\* Lines 186-197: the strand a transcript gets from the clusters of its nodes.
cluster_vote(t, nodes, nsm) ==
    LET strand_bp ==
            [s \in {POS_STRAND, NEG_STRAND} |->
                SumSeq([k \in DOMAIN nodes |->
                    IF nsm[nodes[k]] = s THEN nodes[k][2] - nodes[k][1] ELSE 0])]
        total_strand_bp == strand_bp[POS_STRAND] + strand_bp[NEG_STRAND]
    IN  IF total_strand_bp > 0
        THEN IF strand_bp[POS_STRAND] >= strand_bp[NEG_STRAND]
             THEN POS_STRAND ELSE NEG_STRAND
        ELSE t.strand

\* The loop of lines 185-200 skipping the transcripts that no cluster resolved
RECURSIVE cluster_resolve_skip_loop(_, _, _, _)
cluster_resolve_skip_loop(us, bs, nsm, st) ==
    IF us = <<>> THEN st
    ELSE LET i == Head(us)
             nodes == split_exons(transcripts[i], bs)
             s == cluster_vote(TObj(i, st.strands), nodes, nsm)
             strands == [st.strands EXCEPT ![i] = s]
             r == add_transcript(TObj(i, strands), nodes, st.lists, st.node_data)
         IN  cluster_resolve_skip_loop(Tail(us), bs, nsm,
                 IF s = NO_STRAND THEN st
                 ELSE [strands |-> strands, node_data |-> r.node_data,
                       lists |-> r.lists])

\* The loop of lines 185-200 appending the transcript to the bucket of the
\* strand it had before the vote.
RECURSIVE cluster_resolve_stale_loop(_, _, _, _)
cluster_resolve_stale_loop(us, bs, nsm, st) ==
    IF us = <<>> THEN st
    ELSE LET i == Head(us)
             nodes == split_exons(transcripts[i], bs)
             s == cluster_vote(TObj(i, st.strands), nodes, nsm)
             strands == [st.strands EXCEPT ![i] = s]
             r == add_transcript(TObj(i, st.strands), nodes, st.lists,
                                 st.node_data)
         IN  cluster_resolve_stale_loop(Tail(us), bs, nsm,
                 [strands |-> strands, node_data |-> r.node_data,
                  lists |-> r.lists])

\* The loop of lines 185-200 over the unresolved transcripts us.
RECURSIVE cluster_resolve_loop(_, _, _, _)
cluster_resolve_loop(us, bs, nsm, st) ==
    IF us = <<>> THEN st
    ELSE LET i == Head(us)
             nodes == split_exons(transcripts[i], bs)
             s == cluster_vote(TObj(i, st.strands), nodes, nsm)
             strands == [st.strands EXCEPT ![i] = s]
             r == add_transcript(TObj(i, strands), nodes, st.lists, st.node_data)
         IN  cluster_resolve_loop(Tail(us), bs, nsm,
                 [strands |-> strands, node_data |-> r.node_data,
                  lists |-> r.lists])

---------------------------------------------------------------------------
(* Strand resolution of a locus                                            *)

\* Largest score of a transcript of the locus.
MaxScore == 1

\* The transcripts a locus may hold, in input order: the exon list of each,
\* and whether it may come from the reference annotation.
LocusExons ==
    << [exons |-> << <<1, 2>> >>, may_ref |-> TRUE],
       [exons |-> << <<3, 4>> >>, may_ref |-> TRUE],
       [exons |-> << <<0, 2>> >>, may_ref |-> FALSE],
       [exons |-> << <<2, 4>> >>, may_ref |-> FALSE],
       [exons |-> << <<0, 1>>, <<2, 3>> >>, may_ref |-> FALSE] >>

Strands == {POS_STRAND, NEG_STRAND, NO_STRAND}

\* An exon list that no transcript of the locus has.
Absent == [strand |-> NO_STRAND, is_ref |-> FALSE, score |-> -1]

\* What the k-th transcript may be: absent, or of any strand and score, or a
\* reference transcript of any strand (its score is never read).
LocusAttrs(k) ==
    {Absent}
        \cup [strand : Strands, is_ref : {FALSE}, score : 0..MaxScore]
        \cup IF LocusExons[k].may_ref
             THEN [strand : Strands, is_ref : {TRUE}, score : {0}]
             ELSE {}

\* The lists of transcripts from the k-th on.
RECURSIVE LociFrom(_)
LociFrom(k) ==
    IF k > Len(LocusExons) THEN {<<>>}
    ELSE {(IF a = Absent THEN <<>>
           ELSE <<Transcript(a.strand, a.is_ref, a.score, LocusExons[k].exons)>>)
              \o rest : a \in LocusAttrs(k), rest \in LociFrom(k + 1)}

Loci == LociFrom(1)

InitPartition ==
    /\ pc = "start"
    /\ transcripts \in Loci
    /\ boundaries = <<>>
    /\ t_strand = [i \in DOMAIN transcripts |-> transcripts[i].strand]
    /\ node_data = <<>>
    /\ strand_transcript_lists = <<<<>>, <<>>, <<>>>>
    /\ strand_ref_transcripts = <<<<>>, <<>>>>
    /\ unresolved_transcripts = <<>>
    /\ unresolved_nodes = {}
    /\ resolved = <<>>
    /\ node_strand_map = <<>>
    /\ raised = "none"
    /\ exon = <<0, 0>>
    /\ intervals = <<>>
    /\ TfIdle
    /\ GtfIdle
    /\ GraphIdle

\* Lines 125-143: the boundaries of the locus, then every transcript counted
\* as reference, stranded or unresolved.
Classify ==
    /\ pc = "start"
    /\ LET bs == find_exon_boundaries(transcripts)
           st == classify_loop(1, t_strand, bs,
                     [node_data |-> <<>>, lists |-> <<<<>>, <<>>, <<>>>>,
                      refs |-> <<<<>>, <<>>>>, unresolved |-> <<>>,
                      raised |-> "none"])
       IN  /\ boundaries' = bs
           /\ node_data' = st.node_data
           /\ strand_transcript_lists' = st.lists
           /\ strand_ref_transcripts' = st.refs
           /\ unresolved_transcripts' = st.unresolved
           /\ raised' = st.raised
           /\ pc' = IF st.raised = "none" THEN "classified" ELSE "raised"
    /\ UNCHANGED <<transcripts, t_strand, unresolved_nodes, resolved,
                   node_strand_map, splitVars, tfVars, gtfVars, graphVars>>

\* Lines 149-163: score resolution of the unresolved transcripts.
ScoreResolve ==
    /\ pc = "classified"
    /\ Len(unresolved_transcripts) > 0
    /\ LET r == score_resolution(unresolved_transcripts, t_strand, boundaries,
                                 strand_transcript_lists, node_data)
       IN  /\ t_strand' = r.strands
           /\ resolved' = r.resolved
           /\ unresolved_nodes' = r.unresolved_nodes
           /\ unresolved_transcripts' = r.still
           /\ node_data' = r.node_data
           /\ strand_transcript_lists' = r.lists
    /\ pc' = "scored"
    /\ UNCHANGED <<transcripts, boundaries, strand_ref_transcripts,
                   node_strand_map, raised, splitVars, tfVars, gtfVars,
                   graphVars>>

\* Lines 164-203: the clusters of the unresolved nodes vote, and every
\* transcript still unresolved is added to a bucket.
ClusterResolve ==
    /\ pc = "scored"
    /\ Len(unresolved_transcripts) > 0
    /\ LET nsm == cluster_strands(unresolved_nodes, node_data)
           st == cluster_resolve_loop(unresolved_transcripts, boundaries, nsm,
                     [strands |-> t_strand, node_data |-> node_data,
                      lists |-> strand_transcript_lists])
       IN  /\ node_strand_map' = nsm
           /\ t_strand' = st.strands
           /\ node_data' = st.node_data
           /\ strand_transcript_lists' = st.lists
    /\ pc' = "clustered"
    /\ UNCHANGED <<transcripts, boundaries, strand_ref_transcripts,
                   unresolved_transcripts, unresolved_nodes, resolved, raised,
                   splitVars, tfVars, gtfVars, graphVars>>

\* Line 204: return strand_transcript_lists, strand_ref_transcripts
Return ==
    /\ \/ pc \in {"classified", "scored"} /\ Len(unresolved_transcripts) = 0
       \/ pc = "clustered"
    /\ pc' = "returned"
    /\ UNCHANGED <<transcripts, boundaries, partVars, splitVars, tfVars, gtfVars,
                   graphVars>>

NextPartition == Classify \/ ScoreResolve \/ ClusterResolve \/ Return

SpecPartition == InitPartition /\ [][NextPartition]_vars

---------------------------------------------------------------------------
(* Properties of strand resolution                                         *)

Count(seq, x) == Cardinality({k \in DOMAIN seq : seq[k] = x})

\* How many times transcript i is in the three strand buckets together.
BucketCount(i) ==
    SumSeq([b \in DOMAIN strand_transcript_lists |->
               Count(strand_transcript_lists[b], i)])

RefCount(i) ==
    SumSeq([b \in DOMAIN strand_ref_transcripts |->
               Count(strand_ref_transcripts[b], i)])

Bucketed == UNION {Range(strand_transcript_lists[b]) :
                      b \in DOMAIN strand_transcript_lists}

NodesOf(i) == split_exons(transcripts[i], boundaries)

UnknownInput(i) ==
    transcripts[i].strand = NO_STRAND /\ ~transcripts[i].is_ref

\* C2 as stated: on return every input transcript is in exactly one strand
\* bucket, exactly once, and the buckets hold exactly the input transcripts.
EveryTranscriptInOneBucket ==
    pc = "returned" =>
        /\ \A i \in DOMAIN transcripts : BucketCount(i) = 1
        /\ Bucketed = DOMAIN transcripts

\* C2, amended: on return every non-reference transcript is in exactly one
\* strand bucket, exactly once; every reference transcript is in no strand
\* bucket and exactly once in the reference-only list of its strand; the
\* buckets hold exactly the non-reference input transcripts.
EveryNonRefTranscriptInOneBucket ==
    pc = "returned" =>
        /\ \A i \in DOMAIN transcripts :
              IF transcripts[i].is_ref
              THEN /\ BucketCount(i) = 0
                   /\ RefCount(i) = 1
                   /\ Count(strand_ref_transcripts[transcripts[i].strand + 1], i) = 1
              ELSE /\ BucketCount(i) = 1
                   /\ RefCount(i) = 0
        /\ Bucketed = {i \in DOMAIN transcripts : ~transcripts[i].is_ref}

\* A returned locus with a reference transcript, a stranded transcript and a
\* transcript left to the cluster votes.
EveryNonRefTranscriptInOneBucketWitness ==
    /\ pc = "returned"
    /\ \E i \in DOMAIN transcripts : transcripts[i].is_ref
    /\ \E i \in DOMAIN transcripts :
          ~transcripts[i].is_ref /\ transcripts[i].strand # NO_STRAND
    /\ Len(unresolved_transcripts) > 0
    /\ Len(resolved) > 0

\* C3: partition_transcripts_by_strand never raises, whatever the reference
\* flags and strands of the transcripts.
PartitionNeverRaises == raised = "none" /\ pc # "raised"

\* Node n carries no evidence of a strand: no score and no reference flag.
NoEvidence(nd, n) ==
    /\ nd_get(nd, n).scores[POS_STRAND + 1] = 0
    /\ nd_get(nd, n).scores[NEG_STRAND + 1] = 0
    /\ ~nd_get(nd, n).ref_strands[POS_STRAND + 1]
    /\ ~nd_get(nd, n).ref_strands[NEG_STRAND + 1]

\* When the clusters are about to vote, transcript i entered as Unknown and
\* non-reference, and neither its nodes nor the nodes clustered with them
\* carry evidence of a strand.
Isolated(i) ==
    /\ pc = "scored"
    /\ UnknownInput(i)
    /\ \A n \in Range(NodesOf(i)) :
          \A m \in ClusterOf({n}, unresolved_nodes \cup Range(NodesOf(i))) :
              NoEvidence(node_data, m)

\* C7: an Unknown, non-reference transcript whose nodes and the nodes
\* clustered with them have zero score and no reference flag is still
\* unresolved when the clusters vote, and the vote leaves its strand Unknown
\* and puts it in the Unknown bucket (once, and in no other bucket), without
\* raising.
IsolatedStaysUnknown ==
    /\ [](\A i \in DOMAIN transcripts :
            Isolated(i) => /\ Count(unresolved_transcripts, i) = 1
                           /\ t_strand[i] = NO_STRAND
                           /\ BucketCount(i) = 0)
    /\ [][\A i \in DOMAIN transcripts :
            Isolated(i) =>
                /\ pc' = "clustered"
                /\ raised' = "none"
                /\ t_strand'[i] = NO_STRAND
                /\ Count(strand_transcript_lists'[NO_STRAND + 1], i) = 1
                /\ Count(strand_transcript_lists'[POS_STRAND + 1], i) = 0
                /\ Count(strand_transcript_lists'[NEG_STRAND + 1], i) = 0]_vars

\* A transcript with a score is left Unknown by the cluster votes although
\* the locus holds a stranded transcript with a score.
IsolatedStaysUnknownWitness ==
    /\ pc = "clustered"
    /\ \E i \in DOMAIN transcripts :
          /\ UnknownInput(i)
          /\ transcripts[i].score > 0
          /\ t_strand[i] = NO_STRAND
          /\ Count(strand_transcript_lists[NO_STRAND + 1], i) = 1
    /\ \E j \in DOMAIN transcripts :
          /\ ~transcripts[j].is_ref
          /\ transcripts[j].strand # NO_STRAND
          /\ transcripts[j].score > 0

\* The number of times transcript i visits node n.
Visits(i, n) == Count(NodesOf(i), n)

AllNodes == UNION {Range(NodesOf(i)) : i \in DOMAIN transcripts}

\* NodeData as the reference and the stranded transcripts alone make it.
RefStrandedNodeData ==
    [n \in AllNodes |->
        [ref_strands |->
            [s \in 1..2 |-> \E i \in DOMAIN transcripts :
                /\ transcripts[i].is_ref
                /\ transcripts[i].strand + 1 = s
                /\ Visits(i, n) > 0],
         scores |->
            [s \in 1..3 |->
                SumSeq([i \in DOMAIN transcripts |->
                    IF /\ ~transcripts[i].is_ref
                       /\ transcripts[i].strand # NO_STRAND
                       /\ transcripts[i].strand + 1 = s
                    THEN transcripts[i].score * Visits(i, n) ELSE 0])]]]

\* C9: the strand given to an Unknown transcript by the score-resolution
\* pass is its vote against the NodeData of the reference and stranded
\* transcripts alone, whatever the other Unknown transcripts and their order;
\* the transcripts with a vote are exactly the resolved ones, and when the
\* pass is over NodeData is that NodeData plus the scores of the resolved
\* transcripts.
ScorePassVotesOnSnapshot ==
    pc \in {"scored", "clustered", "returned"} =>
        /\ \A i \in DOMAIN transcripts :
              UnknownInput(i) =>
                  LET v == resolve_strand(NodesOf(i), RefStrandedNodeData)
                  IN  IF v # NO_STRAND
                      THEN /\ Count(resolved, i) = 1
                           /\ Count(unresolved_transcripts, i) = 0
                           /\ t_strand[i] = v
                      ELSE /\ Count(resolved, i) = 0
                           /\ Count(unresolved_transcripts, i) = 1
        /\ pc = "scored" =>
              \A n \in AllNodes :
                  /\ nd_get(node_data, n).ref_strands
                         = RefStrandedNodeData[n].ref_strands
                  /\ \A s \in 1..3 :
                        nd_get(node_data, n).scores[s]
                            = RefStrandedNodeData[n].scores[s]
                              + SumSeq([k \in DOMAIN resolved |->
                                    IF t_strand[resolved[k]] + 1 = s
                                    THEN transcripts[resolved[k]].score
                                             * Visits(resolved[k], n)
                                    ELSE 0])

\* The pass resolved a transcript with a score, and a later Unknown
\* transcript that shares a node with it was left unresolved.
ScorePassVotesOnSnapshotWitness ==
    /\ pc = "scored"
    /\ \E i \in Range(resolved), j \in Range(unresolved_transcripts) :
          /\ i < j
          /\ transcripts[i].score > 0
          /\ Range(NodesOf(i)) \cap Range(NodesOf(j)) # {}

\* The length of the nodes of transcript i whose cluster votes s against nd.
ClusterBp(i, s, nd) ==
    SumSeq([k \in DOMAIN NodesOf(i) |->
        LET n == NodesOf(i)[k]
        IN  IF resolve_strand(sorted_nodes(ClusterOf({n}, unresolved_nodes)), nd) = s
            THEN n[2] - n[1] ELSE 0])

\* The strand the cluster votes against nd give transcript i.
ClusterStrand(i, nd) ==
    LET pos == ClusterBp(i, POS_STRAND, nd)
        neg == ClusterBp(i, NEG_STRAND, nd)
    IN  IF pos + neg = 0 THEN NO_STRAND
        ELSE IF pos > neg THEN POS_STRAND
        ELSE IF neg > pos THEN NEG_STRAND
        ELSE POS_STRAND

\* C10: a transcript left unresolved by the score-resolution pass gets its
\* strand from the cluster votes against NodeData as the pass left it: the
\* strand with the larger length of its nodes, Positive on a tie (and it
\* stays Unknown when no cluster of its nodes voted); its score is added to
\* that strand's accumulator on each of its nodes and it is appended to that
\* strand's bucket.
ClusterVoteDecidesStrand ==
    [][pc = "scored" /\ unresolved_transcripts # <<>> =>
        /\ \A k \in DOMAIN unresolved_transcripts :
              LET i == unresolved_transcripts[k]
                  s == ClusterStrand(i, node_data)
              IN  /\ t_strand'[i] = s
                  /\ Count(strand_transcript_lists'[s + 1], i) = 1
                  /\ Count(strand_transcript_lists[s + 1], i) = 0
        /\ \A n \in AllNodes : \A s \in Strands :
              nd_get(node_data', n).scores[s + 1]
                  = nd_get(node_data, n).scores[s + 1]
                    + SumSeq([k \in DOMAIN unresolved_transcripts |->
                          LET i == unresolved_transcripts[k]
                          IN  IF ClusterStrand(i, node_data) = s
                              THEN transcripts[i].score * Visits(i, n)
                              ELSE 0])]_vars

\* A transcript whose nodes lie in a cluster voted Positive and a cluster of
\* the same length voted Negative got Positive.
ClusterVoteDecidesStrandWitness ==
    /\ pc = "clustered"
    /\ \E i \in Range(unresolved_transcripts) :
          /\ t_strand[i] = POS_STRAND
          /\ \E n \in Range(NodesOf(i)) : node_strand_map[n] = POS_STRAND
          /\ \E n \in Range(NodesOf(i)) : node_strand_map[n] = NEG_STRAND
          /\ Count(strand_transcript_lists[POS_STRAND + 1], i) = 1

---------------------------------------------------------------------------
(* Transfrag.iterintrons                                                   *)

\* Largest number of exons of a transfrag.
MaxExons == 3

TransfragExons == UNION {[1..n -> Exons] : n \in 0..MaxExons}

InitIntrons ==
    /\ pc = "start"
    /\ tf_exons \in TransfragExons
    /\ tf_e1 = <<0, 0>>
    /\ tf_j = 0
    /\ introns = <<>>
    /\ transcripts = <<>>
    /\ boundaries = <<>>
    /\ exon = <<0, 0>>
    /\ intervals = <<>>
    /\ PartIdle
    /\ GtfIdle
    /\ GraphIdle

\* The pair yielded for two consecutive exons, taken from the wrong ends
intron_outer(a, b) == <<a[1], b[2]>>

\* Line 48: yield e1.end, e2.start
intron(a, b) == <<a[2], b[1]>>

\* Line 45: e1 = self.exons[0], an IndexError on an empty exon list; then the
\* loop index starts at 1.
IterStart ==
    /\ pc = "start"
    /\ IF Len(tf_exons) = 0
       THEN /\ raised' = "IndexError"
            /\ pc' = "raised"
            /\ UNCHANGED <<tf_e1, tf_j>>
       ELSE /\ tf_e1' = tf_exons[1]
            /\ tf_j' = 1
            /\ pc' = "loop"
            /\ UNCHANGED raised
    /\ UNCHANGED <<tf_exons, introns, transcripts, boundaries, splitVars, gtfVars,
                   graphVars,
                   t_strand, node_data, strand_transcript_lists,
                   strand_ref_transcripts, unresolved_transcripts,
                   unresolved_nodes, resolved, node_strand_map>>

\* Lines 46-49: one turn of the loop, exons[j] of the code is tf_exons[tf_j + 1].
IterNext ==
    /\ pc = "loop"
    /\ tf_j < Len(tf_exons)
    /\ LET e2 == tf_exons[tf_j + 1]
       IN  /\ introns' = Append(introns, intron(tf_e1, e2))
           /\ tf_e1' = e2
    /\ tf_j' = tf_j + 1
    /\ UNCHANGED <<pc, tf_exons, transcripts, boundaries, splitVars, partVars,
                   gtfVars, graphVars>>

\* The loop is exhausted and the generator stops.
IterStop ==
    /\ pc = "loop"
    /\ tf_j >= Len(tf_exons)
    /\ pc' = "done"
    /\ UNCHANGED <<transcripts, boundaries, splitVars, partVars, tfVars, gtfVars,
                   graphVars>>

NextIntrons == IterStart \/ IterNext \/ IterStop

SpecIntrons == InitIntrons /\ [][NextIntrons]_vars

\* C8: a transfrag with n >= 1 exons yields exactly n - 1 introns, the i-th
\* being (exons[i].end, exons[i+1].start); a single exon yields none.
IntronsBetweenExons ==
    /\ pc = "loop" =>
          /\ Len(introns) = tf_j - 1
          /\ \A i \in DOMAIN introns :
                introns[i] = <<tf_exons[i][2], tf_exons[i + 1][1]>>
    /\ pc = "done" /\ Len(tf_exons) >= 1 =>
          /\ Len(introns) = Len(tf_exons) - 1
          /\ \A i \in 1..(Len(tf_exons) - 1) :
                introns[i] = <<tf_exons[i][2], tf_exons[i + 1][1]>>

\* The test's transfrag, three exons apart from one another: two introns.
IntronsBetweenExonsWitness ==
    /\ pc = "done"
    /\ Len(tf_exons) = 3
    /\ Len(introns) = 2
    /\ tf_exons[1][2] < tf_exons[2][1]
    /\ tf_exons[2][2] < tf_exons[3][1]

---------------------------------------------------------------------------
(* Transfrag.parse_gtf                                                     *)

\* Largest number of feature records of a locus.
MaxLines == 3

\* A feature record: f.feature, its transcript_id and its ref attribute.
Features ==
    [feature : {"transcript", "exon", "CDS"}, t_id : {"T1", "T2"},
     is_ref : BOOLEAN]

GtfInputs == UNION {[1..n -> Features] : n \in 0..MaxLines}

HasKey(d, t_id) == \E k \in DOMAIN d : d[k].t_id = t_id

\* The body of the loop keeping the first transfrag of a duplicated
\* transcript instead of raising
parse_line_keep_first(f, n, d, ignore) ==
    IF f.is_ref /\ ignore THEN [t_dict |-> d, raised |-> "none"]
    ELSE IF f.feature = "transcript"
    THEN IF HasKey(d, f.t_id)
         THEN [t_dict |-> d, raised |-> "none"]
         ELSE [t_dict |-> Append(d, [t_id |-> f.t_id, exons |-> <<>>]),
               raised |-> "none"]
    ELSE IF f.feature = "exon"
    THEN IF ~HasKey(d, f.t_id)
         THEN [t_dict |-> d, raised |-> "GTFError"]
         ELSE [t_dict |->
                  [k \in DOMAIN d |->
                      IF d[k].t_id = f.t_id
                      THEN [d[k] EXCEPT !.exons = Append(@, n)]
                      ELSE d[k]],
               raised |-> "none"]
    ELSE [t_dict |-> d, raised |-> "none"]

\* Lines 69-88: the body of the loop for record f, the n-th of the locus; an
\* exon is filed as the number of its record.
parse_line(f, n, d, ignore) ==
    IF f.is_ref /\ ignore THEN [t_dict |-> d, raised |-> "none"]
    ELSE IF f.feature = "transcript"
    THEN IF HasKey(d, f.t_id)
         THEN [t_dict |-> d, raised |-> "GTFError"]
         ELSE [t_dict |-> Append(d, [t_id |-> f.t_id, exons |-> <<>>]),
               raised |-> "none"]
    ELSE IF f.feature = "exon"
    THEN IF ~HasKey(d, f.t_id)
         THEN [t_dict |-> d, raised |-> "GTFError"]
         ELSE [t_dict |->
                  [k \in DOMAIN d |->
                      IF d[k].t_id = f.t_id
                      THEN [d[k] EXCEPT !.exons = Append(@, n)]
                      ELSE d[k]],
               raised |-> "none"]
    ELSE [t_dict |-> d, raised |-> "none"]

InitGtf ==
    /\ pc = "start"
    /\ gtf_lines \in GtfInputs
    /\ ignore_ref \in BOOLEAN
    /\ line_no = 0
    /\ t_dict = <<>>
    /\ transcripts = <<>>
    /\ boundaries = <<>>
    /\ exon = <<0, 0>>
    /\ intervals = <<>>
    /\ PartIdle
    /\ TfIdle
    /\ GraphIdle

\* Lines 68-88: the next record of the locus.
ParseLine ==
    /\ pc = "start"
    /\ line_no < Len(gtf_lines)
    /\ LET r == parse_line(gtf_lines[line_no + 1], line_no + 1, t_dict,
                           ignore_ref)
       IN  /\ t_dict' = r.t_dict
           /\ raised' = r.raised
           /\ pc' = IF r.raised = "none" THEN "start" ELSE "raised"
    /\ line_no' = line_no + 1
    /\ UNCHANGED <<gtf_lines, ignore_ref, transcripts, boundaries, splitVars,
                   tfVars, graphVars, t_strand, node_data, strand_transcript_lists,
                   strand_ref_transcripts, unresolved_transcripts,
                   unresolved_nodes, resolved, node_strand_map>>

\* Line 89: return t_dict
ParseReturn ==
    /\ pc = "start"
    /\ line_no = Len(gtf_lines)
    /\ pc' = "returned"
    /\ UNCHANGED <<transcripts, boundaries, splitVars, partVars, tfVars, gtfVars,
                   graphVars>>

NextGtf == ParseLine \/ ParseReturn

SpecGtf == InitGtf /\ [][NextGtf]_vars

\* An exon record whose transcript no earlier transcript record of ls
\* declared, or a transcript record whose transcript one did.
Malformed(ls) ==
    \E k \in DOMAIN ls :
        \/ /\ ls[k].feature = "exon"
           /\ ~\E i \in 1..(k - 1) :
                  ls[i].feature = "transcript" /\ ls[i].t_id = ls[k].t_id
        \/ /\ ls[k].feature = "transcript"
           /\ \E i \in 1..(k - 1) :
                  ls[i].feature = "transcript" /\ ls[i].t_id = ls[k].t_id

\* The records of ls that parse_gtf does not skip.
RECURSIVE Kept(_, _)
Kept(ls, ignore) ==
    IF ls = <<>> THEN <<>>
    ELSE IF Head(ls).is_ref /\ ignore THEN Kept(Tail(ls), ignore)
    ELSE <<Head(ls)>> \o Kept(Tail(ls), ignore)

\* C6 as stated: with either ignore_ref, parse_gtf returns no dictionary for
\* records holding an exon of an undeclared transcript or a transcript
\* declared twice.
MalformedNeverReturned ==
    pc = "returned" => ~Malformed(gtf_lines)

\* C6, amended: parse_gtf raises GTFError and returns no dictionary whenever
\* the records it does not skip (all of them, or the non-reference ones when
\* ignore_ref is set) hold an exon whose transcript no earlier such record
\* declared, or a transcript record whose transcript one did.
MalformedKeptNeverReturned ==
    /\ pc = "returned" => ~Malformed(Kept(gtf_lines, ignore_ref))
    /\ pc = "raised" => raised = "GTFError"
    /\ Malformed(Kept(gtf_lines, ignore_ref)) /\ pc = "start" =>
          line_no < Len(gtf_lines)

\* A duplicate transcript record among the records kept has raised GTFError.
MalformedKeptNeverReturnedWitness ==
    /\ pc = "raised"
    /\ raised = "GTFError"
    /\ gtf_lines[line_no].feature = "transcript"
    /\ \E k \in DOMAIN t_dict : t_dict[k].t_id = gtf_lines[line_no].t_id

---------------------------------------------------------------------------
(* create_directed_graph                                                   *)

\* f with f[k] = v
Put(f, k, v) == [x \in DOMAIN f \cup {k} |-> IF x = k THEN v ELSE f[x]]

\* add_node_directed setting the score of a node of the graph instead of
\* adding to it
add_node_directed_set(g, n, score) ==
    [g EXCEPT !.node = Put(@, n, [length |-> n[2] - n[1], score |-> score])]

\* add_node_directed(G, n, score)
add_node_directed(g, n, score) ==
    LET g1 == IF n \in DOMAIN g.node THEN g
              ELSE [g EXCEPT !.node =
                       Put(@, n, [length |-> n[2] - n[1], score |-> 0])]
    IN  [g1 EXCEPT !.node = Put(@, n, [g1.node[n] EXCEPT !.score = @ + score])]

\* Lines 230-234 with G.add_edge(v, u): the edge points from the later node
\* of the sequence to the earlier one.
RECURSIVE add_path_backward(_, _, _, _, _)
add_path_backward(g, nodes, i, u, score) ==
    IF i >= Len(nodes) THEN g
    ELSE LET v == nodes[i + 1]
             g1 == add_node_directed(g, v, score)
         IN  add_path_backward([g1 EXCEPT !.edge = @ \cup {<<v, u>>}],
                               nodes, i + 1, v, score)

\* Lines 230-234: for i in xrange(1, len(nodes)), nodes[i] being nodes[i + 1]
RECURSIVE add_path(_, _, _, _, _)
add_path(g, nodes, i, u, score) ==
    IF i >= Len(nodes) THEN g
    ELSE LET v == nodes[i + 1]
             g1 == add_node_directed(g, v, score)
         IN  add_path([g1 EXCEPT !.edge = @ \cup {<<u, v>>}],
                      nodes, i + 1, v, score)

\* Lines 220-234 without nodes.reverse() on the negative strand
RECURSIVE add_transcripts_unreversed(_, _, _, _, _)
add_transcripts_unreversed(strand, ts, k, bs, g) ==
    IF k > Len(ts) THEN [G |-> g, raised |-> "none"]
    ELSE LET nodes == split_exons(ts[k], bs)
         IN  IF Len(nodes) = 0 THEN [G |-> g, raised |-> "IndexError"]
             ELSE LET u == nodes[1]
                      g1 == add_node_directed(g, u, ts[k].score)
                  IN  add_transcripts_unreversed(strand, ts, k + 1, bs,
                          add_path(g1, nodes, 1, u, ts[k].score))

\* Lines 220-234, from transcript k on; nodes[0] of a transcript without
\* nodes is an IndexError.
RECURSIVE add_transcripts(_, _, _, _, _)
add_transcripts(strand, ts, k, bs, g) ==
    IF k > Len(ts) THEN [G |-> g, raised |-> "none"]
    ELSE LET split == split_exons(ts[k], bs)
             nodes == IF strand = NEG_STRAND THEN Reverse(split) ELSE split
         IN  IF Len(nodes) = 0 THEN [G |-> g, raised |-> "IndexError"]
             ELSE LET u == nodes[1]
                      g1 == add_node_directed(g, u, ts[k].score)
                  IN  add_transcripts(strand, ts, k + 1, bs,
                          add_path(g1, nodes, 1, u, ts[k].score))

\* create_directed_graph storing the boundaries of no transcript in the graph
create_directed_graph_unbounded(strand, ts) ==
    LET bs == find_exon_boundaries(ts)
    IN  add_transcripts(strand, ts, 1, bs,
            [node |-> <<>>, edge |-> {}, boundaries |-> <<>>])

\* create_directed_graph(strand, transcripts)
create_directed_graph(strand, ts) ==
    LET bs == find_exon_boundaries(ts)
    IN  add_transcripts(strand, ts, 1, bs,
            [node |-> <<>>, edge |-> {}, boundaries |-> bs])

---------------------------------------------------------------------------
(* create_transcript_graphs, for the bucket of one strand                  *)

\* G.remove_nodes_from(trim_nodes): the nodes and their edges
remove_nodes_from(g, ns) ==
    [g EXCEPT !.node = [n \in DOMAIN g.node \ ns |-> g.node[n]],
              !.edge = {e \in g.edge : e[1] \notin ns /\ e[2] \notin ns}]

out_degree(g, u) == Cardinality({e \in g.edge : e[1] = u})

in_degree(g, v) == Cardinality({e \in g.edge : e[2] = v})

\* The collapser merges the two ends of an edge that is the only one out of
\* its tail and the only one into its head.
can_collapse(g, u, v) == out_degree(g, u) = 1 /\ in_degree(g, v) = 1

\* The chain of the nodes of S: the nodes merged with them.
RECURSIVE ChainOf(_, _)
ChainOf(g, S) ==
    LET T == S \cup {n \in DOMAIN g.node :
                        \E m \in S :
                            \/ <<m, n>> \in g.edge /\ can_collapse(g, m, n)
                            \/ <<n, m>> \in g.edge /\ can_collapse(g, n, m)}
    IN  IF T = S THEN S ELSE ChainOf(g, T)

\* The collapsed node of a chain spans it.
ChainNode(S) == <<Min({n[1] : n \in S}), Max({n[2] : n \in S})>>

\* collapse_strand_specific_graph(G, introns=True): H and node_chain_map
collapse_strand_specific_graph(g) ==
    LET chain == [n \in DOMAIN g.node |-> ChainNode(ChainOf(g, {n}))]
    IN  [H |-> [node |-> {chain[n] : n \in DOMAIN g.node},
                edge |-> {<<chain[e[1]], chain[e[2]]>> :
                             e \in {x \in g.edge : chain[x[1]] # chain[x[2]]}}],
         node_chain_map |-> chain]

\* nx.weakly_connected_component_subgraphs(H): the component of the nodes S
RECURSIVE ComponentOf(_, _)
ComponentOf(h, S) ==
    LET T == S \cup {n \in h.node :
                        \E m \in S : <<m, n>> \in h.edge \/ <<n, m>> \in h.edge}
    IN  IF T = S THEN S ELSE ComponentOf(h, T)

\* The components, numbered from 0 in the order of their first node.
Gsubs(h) ==
    LET first == {Min({n[1] : n \in ComponentOf(h, {m})}) : m \in h.node}
        order == sorted(first)
    IN  [i \in DOMAIN order |->
            CHOOSE c \in {ComponentOf(h, {m}) : m \in h.node} :
                Min({n[1] : n \in c}) = order[i]]

\* Lines 290-293: node_subgraph_map[n] = i for the nodes of component i
subgraph_map(h) ==
    [n \in h.node |->
        (CHOOSE i \in DOMAIN Gsubs(h) : n \in Gsubs(h)[i]) - 1]

\* sorted(nodes, key=operator.attrgetter('start'), reverse=...): the nodes of
\* one path start at different coordinates
RECURSIVE sorted_by_start(_)
sorted_by_start(S) ==
    IF S = {} THEN <<>>
    ELSE LET n == CHOOSE x \in S : \A y \in S :
                      x[1] < y[1] \/ (x[1] = y[1] /\ x[2] <= y[2])
         IN  <<n>> \o sorted_by_start(S \ {n})

\* Lines 303-310: subgraph_node_map of transcript t, the collapsed nodes of
\* its untrimmed nodes by component
subgraph_node_map(t, g, trimmed, chain, submap) ==
    LET nodes == split_exons(t, g.boundaries)
        cns == {chain[nodes[k]] :
                   k \in {x \in DOMAIN nodes : nodes[x] \notin trimmed}}
    IN  [i \in {submap[cn] : cn \in cns} |-> {cn \in cns : submap[cn] = i}]

\* Lines 313-315 without reverse=(strand == NEG_STRAND)
path_tuple_forward(strand, subgraph_nodes) == sorted_by_start(subgraph_nodes)

\* The path tuple of a set of collapsed nodes (lines 313-315).
path_tuple(strand, subgraph_nodes) ==
    IF strand = NEG_STRAND
    THEN Reverse(sorted_by_start(subgraph_nodes))
    ELSE sorted_by_start(subgraph_nodes)

\* Lines 312-317 sharing the score of a transcript among its components
add_partial_paths_shared(t, strand, snm, pp) ==
    LET keys == {<<i, path_tuple(strand, snm[i])>> : i \in DOMAIN snm}
    IN  [key \in DOMAIN pp \cup keys |->
            (IF key \in DOMAIN pp THEN pp[key] ELSE 0)
                + (IF key \in keys
                   THEN t.score \div Cardinality(DOMAIN snm) ELSE 0)]

\* Lines 312-317: tg.partial_paths[tuple(subgraph_nodes)] += t.score for every
\* component of subgraph_node_map; a missing path counts from 0.
add_partial_paths(t, strand, snm, pp) ==
    LET keys == {<<i, path_tuple(strand, snm[i])>> : i \in DOMAIN snm}
    IN  [key \in DOMAIN pp \cup keys |->
            (IF key \in DOMAIN pp THEN pp[key] ELSE 0)
                + (IF key \in keys THEN t.score ELSE 0)]

\* The transcripts a strand bucket may hold, in order: their exon lists.
BucketExons ==
    << << <<0, 1>>, <<2, 3>> >>,
       << <<0, 3>> >>,
       << <<1, 2>>, <<4, 5>> >>,
       << <<0, 2>>, <<1, 3>> >>,
       << <<3, 3>> >>,
       << >> >>

\* Largest score of a transcript of a bucket.
MaxBucketScore == 2

\* The buckets of strand s from the k-th transcript on: each is absent or has
\* a score.
RECURSIVE BucketsFrom(_, _)
BucketsFrom(s, k) ==
    IF k > Len(BucketExons) THEN {<<>>}
    ELSE {(IF score = 0 THEN <<>>
           ELSE <<Transcript(s, FALSE, score, BucketExons[k])>>) \o rest :
              score \in 0..MaxBucketScore, rest \in BucketsFrom(s, k + 1)}

InitGraph ==
    /\ pc = "start"
    /\ g_strand \in Strands
    /\ transcripts \in BucketsFrom(g_strand, 1)
    /\ G = <<>>
    /\ trim_nodes = {}
    /\ H = <<>>
    /\ node_chain_map = <<>>
    /\ node_subgraph_map = <<>>
    /\ partial_paths = <<>>
    /\ t_no = 0
    /\ boundaries = <<>>
    /\ exon = <<0, 0>>
    /\ intervals = <<>>
    /\ PartIdle
    /\ TfIdle
    /\ GtfIdle

\* Line 272: G = create_directed_graph(strand, transcript_list)
CreateDirectedGraph ==
    /\ pc = "start"
    /\ LET r == create_directed_graph(g_strand, transcripts)
       IN  /\ G' = r.G
           /\ raised' = r.raised
           /\ pc' = IF r.raised = "none" THEN "built" ELSE "raised"
    /\ UNCHANGED <<transcripts, boundaries, splitVars, tfVars, gtfVars,
                   g_strand, trim_nodes, H, node_chain_map, node_subgraph_map,
                   partial_paths, t_no, t_strand, node_data,
                   strand_transcript_lists, strand_ref_transcripts,
                   unresolved_transcripts, unresolved_nodes, resolved,
                   node_strand_map>>

\* Lines 278-282: the trimmer returns some nodes of G, which are removed.
TrimGraph ==
    /\ pc = "built"
    /\ \E ns \in SUBSET DOMAIN G.node :
          /\ trim_nodes' = ns
          /\ G' = remove_nodes_from(G, ns)
    /\ pc' = "trimmed"
    /\ UNCHANGED <<transcripts, boundaries, splitVars, partVars, tfVars,
                   gtfVars, g_strand, H, node_chain_map, node_subgraph_map,
                   partial_paths, t_no>>

\* Lines 284-296: the collapsed graph, its components and an empty
\* partial_paths for each.
CollapseGraph ==
    /\ pc = "trimmed"
    /\ LET r == collapse_strand_specific_graph(G)
       IN  /\ H' = r.H
           /\ node_chain_map' = r.node_chain_map
           /\ node_subgraph_map' = subgraph_map(r.H)
    /\ partial_paths' = <<>>
    /\ pc' = "mapping"
    /\ UNCHANGED <<transcripts, boundaries, splitVars, partVars, tfVars,
                   gtfVars, g_strand, G, trim_nodes, t_no>>

\* Lines 298-317: the paths of the next transcript of the bucket.
MapTranscript ==
    /\ pc = "mapping"
    /\ t_no < Len(transcripts)
    /\ LET t == transcripts[t_no + 1]
           snm == subgraph_node_map(t, G, trim_nodes, node_chain_map,
                                    node_subgraph_map)
       IN  partial_paths' = add_partial_paths(t, g_strand, snm, partial_paths)
    /\ t_no' = t_no + 1
    /\ UNCHANGED <<pc, transcripts, boundaries, splitVars, partVars, tfVars,
                   gtfVars, g_strand, G, trim_nodes, H, node_chain_map,
                   node_subgraph_map>>

\* Lines 318-322: the graphs of the strand are complete.
FinishGraphs ==
    /\ pc = "mapping"
    /\ t_no = Len(transcripts)
    /\ pc' = "finished"
    /\ UNCHANGED <<transcripts, boundaries, splitVars, partVars, tfVars,
                   gtfVars, graphVars>>

NextGraph ==
    \/ CreateDirectedGraph
    \/ TrimGraph
    \/ CollapseGraph
    \/ MapTranscript
    \/ FinishGraphs

SpecGraph == InitGraph /\ [][NextGraph]_vars

---------------------------------------------------------------------------
(* Properties of the graphs                                                *)

\* The node sequence of the k-th transcript of the bucket.
BucketNodes(k) == split_exons(transcripts[k], find_exon_boundaries(transcripts))

BucketVisits(k, n) == Count(BucketNodes(k), n)

\* C4: in the graph create_directed_graph returns, the score of a node is
\* the sum over the transcripts of score times the visits of the node by the
\* transcript's node sequence, the nodes are the nodes visited, the length of
\* a node is end - start, and the node scores sum to the sum over the
\* transcripts of score times the length of the node sequence.
NodeScoreIsSumOfVisits ==
    pc = "built" =>
        /\ DOMAIN G.node =
               UNION {Range(BucketNodes(k)) : k \in DOMAIN transcripts}
        /\ \A n \in DOMAIN G.node :
              /\ G.node[n].length = n[2] - n[1]
              /\ G.node[n].score =
                     SumSeq([k \in DOMAIN transcripts |->
                         transcripts[k].score * BucketVisits(k, n)])
        /\ SumSeq([k \in DOMAIN sorted_nodes(DOMAIN G.node) |->
                      G.node[sorted_nodes(DOMAIN G.node)[k]].score])
               = SumSeq([k \in DOMAIN transcripts |->
                     transcripts[k].score * Len(BucketNodes(k))])

\* A node visited twice by one transcript and once by another of a
\* different score.
NodeScoreIsSumOfVisitsWitness ==
    /\ pc = "built"
    /\ \E n \in DOMAIN G.node : \E k1, k2 \in DOMAIN transcripts :
          /\ BucketVisits(k1, n) = 2
          /\ BucketVisits(k2, n) = 1
          /\ transcripts[k1].score # transcripts[k2].score

\* The collapsed nodes of the untrimmed nodes of the k-th transcript that lie
\* in component c.
Projection(k, c) ==
    {cn \in {node_chain_map[n] : n \in Range(BucketNodes(k)) \ trim_nodes} :
        node_subgraph_map[cn] = c}

\* p lists the nodes of S once each, in transcription order.
IsPathOf(p, S) ==
    /\ Len(p) = Cardinality(S)
    /\ Range(p) = S
    /\ \A x \in 1..(Len(p) - 1) :
          IF g_strand = NEG_STRAND
          THEN p[x][1] > p[x + 1][1]
          ELSE p[x][1] < p[x + 1][1]

Components == {node_subgraph_map[cn] : cn \in DOMAIN node_subgraph_map}

\* C5: the score of path p of component c is the sum of the full scores of
\* the transcripts (mapped so far) whose untrimmed, chain-mapped nodes in c
\* form exactly p; every transcript has a path in each component that holds
\* one of its untrimmed nodes, so a transcript in k components adds its whole
\* score to k paths.
PathScoreIsSumOfTranscripts ==
    pc \in {"mapping", "finished"} =>
        /\ \A key \in DOMAIN partial_paths :
              /\ key[1] \in Components
              /\ partial_paths[key] =
                     SumSeq([k \in 1..t_no |->
                         IF /\ Projection(k, key[1]) # {}
                            /\ IsPathOf(key[2], Projection(k, key[1]))
                         THEN transcripts[k].score ELSE 0])
              /\ \E k \in 1..t_no :
                    /\ Projection(k, key[1]) # {}
                    /\ IsPathOf(key[2], Projection(k, key[1]))
        /\ \A k \in 1..t_no : \A c \in Components :
              Projection(k, c) # {} =>
                  \E key \in DOMAIN partial_paths :
                      /\ key[1] = c
                      /\ IsPathOf(key[2], Projection(k, c))
        /\ pc = "finished" => t_no = Len(transcripts)

\* Trimming left a transcript in two components, on a path of each that it
\* shares with another transcript: both paths hold more than its own score.
PathScoreIsSumOfTranscriptsWitness ==
    /\ pc = "finished"
    /\ \E k \in DOMAIN transcripts : \E c1, c2 \in Components :
          /\ c1 # c2
          /\ Projection(k, c1) # {}
          /\ Projection(k, c2) # {}
          /\ \E key \in DOMAIN partial_paths :
                /\ key[1] = c1
                /\ IsPathOf(key[2], Projection(k, c1))
                /\ partial_paths[key] > transcripts[k].score
          /\ \E key \in DOMAIN partial_paths :
                /\ key[1] = c2
                /\ IsPathOf(key[2], Projection(k, c2))
                /\ partial_paths[key] > transcripts[k].score

\* The node sequence of the k-th transcript in transcription order: genomic
\* order, reversed on the negative strand.
TranscribedNodes(k) ==
    IF g_strand = NEG_STRAND THEN Reverse(BucketNodes(k)) ELSE BucketNodes(k)

ConsecutivePairs ==
    UNION {{<<TranscribedNodes(k)[x], TranscribedNodes(k)[x + 1]>> :
               x \in 1..(Len(TranscribedNodes(k)) - 1)} :
           k \in DOMAIN transcripts}

\* C11: the edges of the graph create_directed_graph returns are exactly the
\* pairs of consecutive nodes of the transcripts' node sequences taken in
\* transcription order (reversed genomic order on the negative strand), each
\* once however many transcripts repeat it.
EdgesFollowTranscription ==
    pc = "built" => G.edge = ConsecutivePairs

\* On the negative strand two transcripts give the same edge, which runs from
\* the node of higher coordinates to the node of lower coordinates.
EdgesFollowTranscriptionWitness ==
    /\ pc = "built"
    /\ g_strand = NEG_STRAND
    /\ \E e \in G.edge : \E k1, k2 \in DOMAIN transcripts :
          /\ k1 # k2
          /\ e[1][1] > e[2][1]
          /\ \E x \in 1..(Len(TranscribedNodes(k1)) - 1) :
                e = <<TranscribedNodes(k1)[x], TranscribedNodes(k1)[x + 1]>>
          /\ \E x \in 1..(Len(TranscribedNodes(k2)) - 1) :
                e = <<TranscribedNodes(k2)[x], TranscribedNodes(k2)[x + 1]>>

\* C12: every path tuple of the partial paths of a component is non-empty,
\* holds collapsed nodes of that component only, none twice, and is ordered
\* by start, strictly ascending on the positive and unknown strands and
\* strictly descending on the negative strand.
PathTuplesOrdered ==
    pc \in {"mapping", "finished"} =>
        \A key \in DOMAIN partial_paths :
            LET c == key[1]
                p == key[2]
            IN  /\ Len(p) >= 1
                /\ \A x \in DOMAIN p :
                      /\ p[x] \in H.node
                      /\ node_subgraph_map[p[x]] = c
                /\ \A x, y \in DOMAIN p : x # y => p[x] # p[y]
                /\ \A x \in 1..(Len(p) - 1) :
                      IF g_strand = NEG_STRAND
                      THEN p[x][1] > p[x + 1][1]
                      ELSE p[x][1] < p[x + 1][1]

\* A path of two nodes or more has been recorded on the negative strand,
\* among several paths.
PathTuplesOrderedWitness ==
    /\ pc = "finished"
    /\ g_strand = NEG_STRAND
    /\ \E key \in DOMAIN partial_paths :
          /\ Len(key[2]) >= 2
          /\ key[2][1][1] > key[2][2][1]
    /\ Cardinality(DOMAIN partial_paths) >= 2

\* The nodes the path-mapping pass gets for the k-th transcript: its exons
\* split again, against the boundaries stored in the graph.
ResplitNodes(k) == split_exons(transcripts[k], G.boundaries)

\* C14: in the path-mapping pass, with the trimmed nodes being nodes of the
\* graph and the chain map defined on the nodes left, every node of a bucket
\* transcript split again against the stored boundaries is a trimmed node or
\* a key of the chain map whose image is a key of the component map: no
\* lookup fails.
PathLookupsDefined ==
    pc \in {"mapping", "finished"} =>
        \A k \in DOMAIN transcripts : \A x \in DOMAIN ResplitNodes(k) :
            LET n == ResplitNodes(k)[x]
            IN  \/ n \in trim_nodes
                \/ /\ n \in DOMAIN node_chain_map
                   /\ node_chain_map[n] \in DOMAIN node_subgraph_map

\* Some nodes of a transcript were trimmed, others are looked up, one of them
\* merged into a chain, and the exons were split at a boundary.
PathLookupsDefinedWitness ==
    /\ pc = "mapping"
    /\ t_no = 0
    /\ \E k \in DOMAIN transcripts :
          /\ Len(ResplitNodes(k)) > Len(transcripts[k].exons)
          /\ \E x \in DOMAIN ResplitNodes(k) : ResplitNodes(k)[x] \in trim_nodes
          /\ \E x \in DOMAIN ResplitNodes(k) :
                /\ ResplitNodes(k)[x] \notin trim_nodes
                /\ node_chain_map[ResplitNodes(k)[x]] # ResplitNodes(k)[x]

---------------------------------------------------------------------------
(* The strand field of the transcripts of a bucket                         *)

\* C15: on return from partition_transcripts_by_strand every transcript of
\* the bucket of strand s has strand field s; a non-reference transcript that
\* came in positive or negative is in the bucket of that strand with its
\* strand field as it came, and only a transcript that came in unknown has a
\* strand field that differs from the one it came with.
BucketMatchesStrandField ==
    pc = "returned" =>
        /\ \A b \in DOMAIN strand_transcript_lists :
              \A i \in Range(strand_transcript_lists[b]) : t_strand[i] = b - 1
        /\ \A i \in DOMAIN transcripts :
              (~transcripts[i].is_ref /\ transcripts[i].strand # NO_STRAND) =>
                  /\ Count(strand_transcript_lists[transcripts[i].strand + 1], i) = 1
                  /\ t_strand[i] = transcripts[i].strand
        /\ \A i \in DOMAIN transcripts :
              t_strand[i] # transcripts[i].strand =>
                  transcripts[i].strand = NO_STRAND

\* A returned locus with a stranded transcript in its bucket, an unknown
\* transcript rewritten by the score pass, one rewritten by the cluster votes
\* and one filed as unknown.
BucketMatchesStrandFieldWitness ==
    /\ pc = "returned"
    /\ \E i \in DOMAIN transcripts :
          /\ ~transcripts[i].is_ref
          /\ transcripts[i].strand = NEG_STRAND
          /\ i \in Range(strand_transcript_lists[NEG_STRAND + 1])
    /\ \E i \in Range(resolved) :
          UnknownInput(i) /\ t_strand[i] # NO_STRAND
    /\ \E i \in Range(unresolved_transcripts) :
          UnknownInput(i) /\ t_strand[i] # NO_STRAND
    /\ \E i \in Range(strand_transcript_lists[NO_STRAND + 1]) :
          t_strand[i] = NO_STRAND

---------------------------------------------------------------------------
(* Transcripts without nodes, and the direction of the edges               *)

\* C16: create_directed_graph completes for every list of transcripts, a
\* transcript without exons or with degenerate exons only included.
CreateDirectedGraphCompletes == pc # "start" => raised = "none"

\* The exons of a transcript are in ascending genomic order and do not
\* overlap.
ExonsInOrder(t) ==
    \A j \in 1..(Len(t.exons) - 1) : t.exons[j][2] <= t.exons[j + 1][1]

\* The nodes reached from the nodes of S along the edges of g.
RECURSIVE Successors(_, _)
Successors(g, S) ==
    LET T == S \cup {e[2] : e \in {x \in g.edge : x[1] \in S}}
    IN  IF T = S THEN S ELSE Successors(g, T)

\* C17: when the exons of every transcript are in ascending order and do not
\* overlap, every edge (u, v) of the graph built has u.end <= v.start on the
\* positive and unknown strands and v.end <= u.start on the negative strand,
\* and the graph has no self-loop and no directed cycle.
EdgesRespectCoordinates ==
    (pc = "built" /\ \A k \in DOMAIN transcripts : ExonsInOrder(transcripts[k])) =>
        /\ \A e \in G.edge :
              IF g_strand = NEG_STRAND
              THEN e[2][2] <= e[1][1]
              ELSE e[1][2] <= e[2][1]
        /\ \A e \in G.edge : e[1] # e[2]
        /\ \A n \in DOMAIN G.node :
              n \notin Successors(G, {e[2] : e \in {x \in G.edge : x[1] = n}})

\* A negative-strand graph of ordered transcripts with an edge between the
\* pieces of one exon and an edge across an intron.
EdgesRespectCoordinatesWitness ==
    /\ pc = "built"
    /\ g_strand = NEG_STRAND
    /\ Len(transcripts) >= 2
    /\ \A k \in DOMAIN transcripts : ExonsInOrder(transcripts[k])
    /\ \E e \in G.edge : e[2][2] = e[1][1]
    /\ \E e \in G.edge : e[2][2] < e[1][1]

=============================================================================
